---- MODULE Spec2Model ----
(***************************************************************************)
(* MultiplicativeLSTMCell.py: the multiplicative LSTM cell (__init__,      *)
(* __call__) and the weight-normalised linear map (_linear), together with *)
(* the variable store that tf.get_variable / tf.variable_scope act on.     *)
(*                                                                         *)
(* Numbers are fixed point in halves: the integer v stands for the real    *)
(* v/2, so 2 is 1.0.  A tensor is its static shape and the values of its   *)
(* first batch row (batch rows are computed independently of each other).  *)
(***************************************************************************)
EXTENDS Integers, Sequences, FiniteSets, TLC

VARIABLES
    cfg,      \* the constructed cell: the fields __init__ assigns
    g,        \* the graph's variable store: vars (name -> variable), rng
    state,    \* the recurrent state the driver holds between steps
    carried,  \* the (c, h) pair whose packing state is, <<>> when the driver built it
    last,     \* the most recent call: its arguments and what it returned or raised
    t,        \* calls made so far
    threads   \* the concurrent callers: position, status, variables obtained

vars == <<cfg, g, state, carried, last, t, threads>>

-----------------------------------------------------------------------------
(* Bounds of the model. *)

\* num_units, num_proj and the input's feature width range over 1..MaxDim
MaxDim == 2
\* calls in one run
MaxSteps == 2
\* distinct draws of the random source behind the weight initializers
NumSeeds == 2

-----------------------------------------------------------------------------
(* Python and framework values. *)

\* Python's None, for an optional int and for a statically unknown dimension
None == -1

\* the initializers a variable can be created with
orthogonal_initializer == [kind |-> "orthogonal", value |-> 2]
framework_default_initializer == [kind |-> "uniform_unit_scaling", value |-> 0]
no_initializer == [kind |-> "none", value |-> 0]
constant_initializer(v) == [kind |-> "constant", value |-> v]

Tensor(shape, val) == [shape |-> shape, val |-> val]

\* a batch x w tensor whose entries are all v
Fill(b, w, v) == Tensor(<<b, w>>, [k \in 1..w |-> v])

\* fixed-point product of two reals held in halves
FxMul(a, b) == (a * b) \div 2

Min(a, b) == IF a < b THEN a ELSE b
Max(a, b) == IF a > b THEN a ELSE b

\* tf.sigmoid, rounded to the nearest half
sigmoid(x) == IF x <= -3 THEN 0 ELSE IF x >= 3 THEN 2 ELSE 1

\* tf.tanh, rounded to the nearest half
tanh(x) == Max(-2, Min(2, x))

TSigmoid(a) == Tensor(a.shape, [k \in 1..Len(a.val) |-> sigmoid(a.val[k])])
TTanh(a) == Tensor(a.shape, [k \in 1..Len(a.val) |-> tanh(a.val[k])])

TAdd(a, b) == Tensor(a.shape, [k \in 1..Len(a.val) |-> a.val[k] + b.val[k]])
TMul(a, b) == Tensor(a.shape, [k \in 1..Len(a.val) |-> FxMul(a.val[k], b.val[k])])
\* tensor + Python float
TAddScalar(a, s) == Tensor(a.shape, [k \in 1..Len(a.val) |-> a.val[k] + s])
\* a [n] vector broadcast against a batch x n tensor
TMulVec(w, a) == Tensor(a.shape, [k \in 1..Len(a.val) |-> FxMul(w[k], a.val[k])])

\* a clip that forgets the lower bound
clip_by_value_upper_only(x, lo, hi) ==
    Tensor(x.shape, [k \in 1..Len(x.val) |-> Min(x.val[k], hi)])
clip_by_value(x, lo, hi) ==
    Tensor(x.shape, [k \in 1..Len(x.val) |-> Min(Max(x.val[k], lo), hi)])

\* tf.split(x, n, axis=1): n equal parts
split(x, n) ==
    LET w == Len(x.val) \div n
    IN  [p \in 1..n |-> Tensor(<<x.shape[1], w>>, SubSeq(x.val, (p - 1) * w + 1, p * w))]

\* tf.slice(x, [0, begin], [-1, size])
slice(x, begin, size) ==
    Tensor(<<x.shape[1], size>>, SubSeq(x.val, begin + 1, begin + size))

\* tf.concat([a, b], 1)
concat2(a, b) == Tensor(<<a.shape[1], a.shape[2] + b.shape[2]>>, a.val \o b.val)

RECURSIVE concat(_)
concat(args) ==
    IF Len(args) = 1 THEN args[1] ELSE concat2(args[1], concat(Tail(args)))

\* whether tf.concat(args, 1) passes static shape inference: equal batch sizes
ConcatCompatible(args) == \A a \in 1..Len(args) : args[a].shape[1] = args[1].shape[1]

RECURSIVE SumSeq(_)
SumSeq(s) == IF s = <<>> THEN 0 ELSE Head(s) + SumSeq(Tail(s))

ISqrt(n) == CHOOSE r \in 0..n : r * r <= n /\ n < (r + 1) * (r + 1)

\* tf.matmul(x, W) for the first batch row
matmul(x, W) ==
    LET cols == IF W = <<>> THEN 0 ELSE Len(W[1])
    IN  Tensor(<<x.shape[1], cols>>,
               [k \in 1..cols |-> SumSeq([r \in 1..Len(W) |-> FxMul(x.val[r], W[r][k])])])

-----------------------------------------------------------------------------
(* The variable store: tf.variable_scope and tf.get_variable. *)

E_EXISTS == "ValueError: Variable already exists, disallowed"
E_MISSING == "ValueError: Variable does not exist, disallowed"
E_SHAPE == "ValueError: Trying to share variable, but specified shape and found shape differ"

\* a scope: its name path, its reuse flag and its default initializer
Scope(path, reuse) == [path |-> path, reuse |-> reuse, initializer |-> no_initializer]

\* with tf.variable_scope(name): the nested scope inherits reuse and initializer
variable_scope(ctx, name) == [ctx EXCEPT !.path = Append(@, name)]

\* the value an initializer returns for a shape, with the random source at seed:
\* a constant fills; a weight initializer draws, per column, one entry of +-1.0
InitialValue(init, shape, seed) ==
    IF init.kind = "constant"
    THEN IF Len(shape) = 1
         THEN [k \in 1..shape[1] |-> init.value]
         ELSE [r \in 1..shape[1] |-> [k \in 1..shape[2] |-> init.value]]
    ELSE LET sgn(k) == IF (k + seed) % 2 = 0 THEN 2 ELSE -2
         IN  IF Len(shape) = 1
             THEN [k \in 1..shape[1] |-> sgn(k)]
             ELSE [r \in 1..shape[1] |->
                     [k \in 1..shape[2] |->
                        IF r = ((k + seed) % shape[1]) + 1 THEN sgn(k) ELSE 0]]

\* the initializer get_variable uses: the one given, else the scope's, else
\* the framework's default
EffectiveInitializer(ctx, init) ==
    IF init # no_initializer THEN init
    ELSE IF ctx.initializer # no_initializer THEN ctx.initializer
    ELSE framework_default_initializer

\* tf.get_variable(name, shape, initializer=init) in scope ctx on store gr
\* a store that makes a new variable on every request, whatever it holds
get_variable_always_creates(ctx, gr, name, shape, init) ==
    LET key == Append(ctx.path, name)
        eff == EffectiveInitializer(ctx, init)
        v == [shape |-> shape, initializer |-> eff,
              value |-> InitialValue(eff, shape, gr.rng),
              serial |-> Cardinality(DOMAIN gr.vars) + 1]
    IN  [err |-> "", var |-> v,
         g |-> [vars |-> (key :> v) @@ gr.vars, rng |-> (gr.rng + 1) % NumSeeds]]

get_variable(ctx, gr, name, shape, init) ==
    LET key == Append(ctx.path, name)
    IN  IF key \in DOMAIN gr.vars
        THEN IF ~ctx.reuse THEN [err |-> E_EXISTS, var |-> <<>>, g |-> gr]
             ELSE IF gr.vars[key].shape # shape THEN [err |-> E_SHAPE, var |-> <<>>, g |-> gr]
             ELSE [err |-> "", var |-> gr.vars[key], g |-> gr]
        ELSE IF ctx.reuse THEN [err |-> E_MISSING, var |-> <<>>, g |-> gr]
             ELSE LET eff == EffectiveInitializer(ctx, init)
                      v == [shape |-> shape, initializer |-> eff,
                            value |-> InitialValue(eff, shape, gr.rng),
                            serial |-> Cardinality(DOMAIN gr.vars) + 1]
                  IN  [err |-> "", var |-> v,
                       g |-> [vars |-> (key :> v) @@ gr.vars,
                              rng |-> (gr.rng + 1) % NumSeeds]]

-----------------------------------------------------------------------------
(* _linear: the weight-normalised linear map. *)

E_ARGS == "ValueError: args must be specified"
E_2D == "ValueError: Linear is expecting 2D arguments"
E_DIM == "ValueError: Linear expects shape[1] of arguments"
E_CONCAT == "ValueError: Dimension 0 in both shapes must be equal"

\* what a caller passes as args: None, a list (possibly empty), or one tensor
NoArgs == [kind |-> "none", items |-> <<>>]
ArgList(items) == [kind |-> "list", items |-> items]
OneTensor(x) == [kind |-> "tensor", items |-> <<x>>]

\* the loop over shapes: the first shape that is not 2-D or whose shape[1] is
\* None or 0 raises
\* a width test that lets a zero width through (is None in place of not)
RECURSIVE CheckShapes_accepts_zero(_)
CheckShapes_accepts_zero(shapes) ==
    IF shapes = <<>> THEN ""
    ELSE IF Len(Head(shapes)) # 2 THEN E_2D
    ELSE IF Head(shapes)[2] = None THEN E_DIM
    ELSE CheckShapes_accepts_zero(Tail(shapes))

RECURSIVE CheckShapes(_)
CheckShapes(shapes) ==
    IF shapes = <<>> THEN ""
    ELSE IF Len(Head(shapes)) # 2 THEN E_2D
    ELSE IF Head(shapes)[2] = None \/ Head(shapes)[2] = 0 THEN E_DIM
    ELSE CheckShapes(Tail(shapes))

\* the checks made before any variable is touched; "" when they pass
LinearArgError(args) ==
    IF args.kind = "none" \/ (args.kind = "list" /\ args.items = <<>>) THEN E_ARGS
    ELSE CheckShapes([a \in 1..Len(args.items) |-> args.items[a].shape])

\* tf.norm(matrix, axis=0)
ColumnNorms(matrix) ==
    [k \in 1..Len(matrix[1]) |->
        ISqrt(SumSeq([r \in 1..Len(matrix) |-> matrix[r][k] * matrix[r][k]]))]

\* matrix * (scalars * 1.0 / norm), broadcast over the rows
ScaledMatrix(matrix, scalars) ==
    LET norms == ColumnNorms(matrix)
        inv_norms == [k \in 1..Len(norms) |-> 4 \div norms[k]]
        scaled_norms == [k \in 1..Len(norms) |-> FxMul(scalars[k], inv_norms[k])]
    IN  [r \in 1..Len(matrix) |->
            [k \in 1..Len(norms) |-> FxMul(matrix[r][k], scaled_norms[k])]]

LinearRaised(e, gr) == [err |-> e, res |-> <<>>, g |-> gr]
LinearReturned(res, gr) == [err |-> "", res |-> res, g |-> gr]

\* if not bias: return res; else get Bias and return res + bias_term
LinearBias(bias, res, gr, b) ==
    IF ~bias THEN LinearReturned(res, gr)
    ELSE IF b.err # "" THEN LinearRaised(b.err, b.g)
    ELSE LinearReturned(Tensor(res.shape,
                               [k \in 1..Len(res.val) |-> res.val[k] + b.var.value[k]]),
                        b.g)

\* with matrix m and scalars s obtained: the product, then the bias
LinearProduct(items, output_size, bias, bias_start, lin, m, s) ==
    IF s.err # "" THEN LinearRaised(s.err, s.g)
    ELSE IF Len(items) > 1 /\ ~ConcatCompatible(items) THEN LinearRaised(E_CONCAT, s.g)
    ELSE LinearBias(bias,
                    matmul(concat(items), ScaledMatrix(m.var.value, s.var.value)),
                    s.g,
                    get_variable(lin, s.g, "Bias", <<output_size>>,
                                 constant_initializer(bias_start)))

\* with matrix m obtained: the scalars, then the rest
LinearScalars(items, output_size, bias, bias_start, lin, m) ==
    IF m.err # "" THEN LinearRaised(m.err, m.g)
    ELSE LinearProduct(items, output_size, bias, bias_start, lin, m,
                       get_variable(lin, m.g, "Scalars", <<output_size>>,
                                    constant_initializer(2)))

\* total_arg_size
TotalArgSize(items) == SumSeq([a \in 1..Len(items) |-> items[a].shape[2]])

\* _linear(args, output_size, bias, bias_start) on store gr, called in scope
\* ctx: [err, res, g], g the store as the call leaves it
\* the scale vector fetched before the shapes are looked at
_linear_scalars_first(args, output_size, bias, bias_start, ctx, gr) ==
    IF args.kind = "none" \/ args.items = <<>> THEN LinearRaised(E_ARGS, gr)
    ELSE IF LinearArgError(args) # ""
    THEN LinearRaised(LinearArgError(args),
                      get_variable(variable_scope(ctx, "Linear"), gr, "Scalars",
                                   <<output_size>>, constant_initializer(2)).g)
    ELSE LinearScalars(args.items, output_size, bias, bias_start,
                       variable_scope(ctx, "Linear"),
                       get_variable(variable_scope(ctx, "Linear"), gr, "NormalColMatrix",
                                    <<TotalArgSize(args.items), output_size>>,
                                    no_initializer))

_linear(args, output_size, bias, bias_start, ctx, gr) ==
    IF LinearArgError(args) # "" THEN LinearRaised(LinearArgError(args), gr)
    ELSE LinearScalars(args.items, output_size, bias, bias_start,
                       variable_scope(ctx, "Linear"),
                       get_variable(variable_scope(ctx, "Linear"), gr, "NormalColMatrix",
                                    <<TotalArgSize(args.items), output_size>>,
                                    no_initializer))

-----------------------------------------------------------------------------
(* MultiplicativeLSTMCell.__init__ *)

\* the recurrent state as the cell packs it when state_is_tuple
LSTMStateTuple(c, h) == [c |-> c, h |-> h]

\* the fields __init__ assigns; state_size is <<c, h>> as a tuple and <<c + h>>
\* as a concatenated vector
Construct(num_units, use_peepholes, cell_clip, initializer, num_proj, proj_clip, state_is_tuple) ==
    LET hsize == IF num_proj # None /\ num_proj # 0 THEN num_proj ELSE num_units
    IN  [num_units |-> num_units, use_peepholes |-> use_peepholes,
         cell_clip |-> cell_clip, num_proj |-> num_proj, proj_clip |-> proj_clip,
         initializer |-> initializer, forget_bias |-> 2,
         state_is_tuple |-> state_is_tuple, activation |-> "tanh",
         state_size |-> IF state_is_tuple THEN <<num_units, hsize>>
                        ELSE <<num_units + hsize>>,
         output_size |-> hsize]

-----------------------------------------------------------------------------
(* MultiplicativeLSTMCell.__call__ *)

E_RANK == "ValueError: Shape is not of rank 2"
E_INFER == "ValueError: Could not infer input size from inputs.get_shape()[-1]"

\* self.activation
Activation(c, x) == TTanh(x)

\* num_proj = self.num_units if self.num_proj is None else self.num_proj
ProjWidth(c) == IF c.num_proj = None THEN c.num_units ELSE c.num_proj

\* (c_prev, h_prev) = state, or the two slices of the concatenated state
\* the hidden slice taken from column 0
Unpack_from_zero(c, st) ==
    IF c.state_is_tuple THEN <<st.c, st.h>>
    ELSE <<slice(st, 0, c.num_units), slice(st, 0, ProjWidth(c))>>

Unpack(c, st) ==
    IF c.state_is_tuple THEN <<st.c, st.h>>
    ELSE <<slice(st, 0, c.num_units), slice(st, c.num_units, ProjWidth(c))>>

\* the cell update, with or without the peephole terms
CellUpdate(c, c_prev, i, j, f, w_f_diag, w_i_diag) ==
    IF c.use_peepholes
    THEN TAdd(TMul(c_prev,
                   TSigmoid(TAdd(TAddScalar(f, c.forget_bias),
                                      TMulVec(w_f_diag, c_prev)))),
              TMul(TSigmoid(TAdd(i, TMulVec(w_i_diag, c_prev))), j))
    ELSE TAdd(TMul(c_prev, TSigmoid(TAddScalar(f, c.forget_bias))),
              TMul(TSigmoid(i), j))

\* if self.cell_clip is not None: c = tf.clip_by_value(c, -cell_clip, cell_clip)
CellClip(c, x) ==
    IF c.cell_clip # None THEN clip_by_value(x, -c.cell_clip, c.cell_clip) ELSE x

\* the hidden state before projection
Hidden(c, cs, o, w_o_diag) ==
    IF c.use_peepholes
    THEN TMul(TSigmoid(TAdd(o, TMulVec(w_o_diag, cs))),
              Activation(c, TMul(cs, TAdd(o, TMulVec(w_o_diag, cs)))))
    ELSE Activation(c, TMul(cs, o))

\* if self.proj_clip is not None: h = tf.clip_by_value(h, -proj_clip, proj_clip)
\* the projection clipped by the cell's bound
ProjClip_by_cell_clip(c, x) ==
    IF c.cell_clip # None THEN clip_by_value(x, -c.cell_clip, c.cell_clip) ELSE x

ProjClip(c, x) ==
    IF c.proj_clip # None THEN clip_by_value(x, -c.proj_clip, c.proj_clip) ELSE x

\* new_state: the pair, or tf.concat([c, h], 1)
Pack(c, cs, h) == IF c.state_is_tuple THEN LSTMStateTuple(cs, h) ELSE concat2(cs, h)

Raised(e, gr) ==
    [err |-> e, g |-> gr, h |-> <<>>, new_state |-> <<>>, c |-> <<>>,
     c_prev |-> <<>>, h_prev |-> <<>>, i |-> <<>>, j |-> <<>>, f |-> <<>>, o |-> <<>>]

\* return h, new_state
Returned(c, prev, gates, cs, h, gr) ==
    [err |-> "", g |-> gr, h |-> h, new_state |-> Pack(c, cs, h), c |-> cs,
     c_prev |-> prev[1], h_prev |-> prev[2],
     i |-> gates[1], j |-> gates[2], f |-> gates[3], o |-> gates[4]]

\* with W_P obtained: project, clip, return
CallProject(c, prev, gates, cs, h0, P) ==
    IF P.err # "" THEN Raised(P.err, P.g)
    ELSE Returned(c, prev, gates, cs, ProjClip(c, matmul(h0, P.var.value)), P.g)

\* the hidden state returned as it is, projection or not
CallHidden_unprojected(c, prev, cell, gates, pp, cs) ==
    Returned(c, prev, gates, cs, Hidden(c, cs, gates[4], pp.w_o), pp.g)

\* with the clipped cell state cs: the hidden state, then the projection if any
CallHidden(c, prev, cell, gates, pp, cs) ==
    IF c.num_proj # None
    THEN CallProject(c, prev, gates, cs, Hidden(c, cs, gates[4], pp.w_o),
                     get_variable(cell, pp.g, "W_P", <<c.num_units, ProjWidth(c)>>,
                                  no_initializer))
    ELSE Returned(c, prev, gates, cs, Hidden(c, cs, gates[4], pp.w_o), pp.g)

\* with the peephole diagonals pp obtained (or not asked for): update and clip
CallUpdate(c, prev, cell, gates, pp) ==
    IF pp.err # "" THEN Raised(pp.err, pp.g)
    ELSE CallHidden(c, prev, cell, gates, pp,
                    CellClip(c, CellUpdate(c, prev[1], gates[1], gates[2], gates[3],
                                           pp.w_f, pp.w_i)))

NoPeepholes(gr) == [err |-> "", g |-> gr, w_f |-> <<>>, w_i |-> <<>>, w_o |-> <<>>]
PeepholesRaised(e, gr) == [err |-> e, g |-> gr, w_f |-> <<>>, w_i |-> <<>>, w_o |-> <<>>]

PeepholeO(F, I, O) ==
    IF O.err # "" THEN PeepholesRaised(O.err, O.g)
    ELSE [err |-> "", g |-> O.g, w_f |-> F.var.value, w_i |-> I.var.value,
          w_o |-> O.var.value]

PeepholeI(c, cell, F, I) ==
    IF I.err # "" THEN PeepholesRaised(I.err, I.g)
    ELSE PeepholeO(F, I, get_variable(cell, I.g, "W_O_diag", <<c.num_units>>, no_initializer))

PeepholeF(c, cell, F) ==
    IF F.err # "" THEN PeepholesRaised(F.err, F.g)
    ELSE PeepholeI(c, cell, F,
                   get_variable(cell, F.g, "W_I_diag", <<c.num_units>>, no_initializer))

\* the diagonals fetched whether or not peepholes are on
Peepholes_unconditional(c, cell, gr) ==
    PeepholeF(c, cell, get_variable(cell, gr, "W_F_diag", <<c.num_units>>, no_initializer))

\* if self.use_peepholes: W_F_diag, W_I_diag, W_O_diag, in this order
Peepholes(c, cell, gr) ==
    IF c.use_peepholes
    THEN PeepholeF(c, cell,
                   get_variable(cell, gr, "W_F_diag", <<c.num_units>>, no_initializer))
    ELSE NoPeepholes(gr)

\* with the gate map L2 evaluated: i, j, f, o, then the diagonals
CallGates(c, prev, cell, L2) ==
    IF L2.err # "" THEN Raised(L2.err, L2.g)
    ELSE CallUpdate(c, prev, cell, split(L2.res, 4), Peepholes(c, cell, L2.g))

\* Wx, Wh = tf.split(concat, 2, axis=1); m = Wx * Wh
Multiplicative(x) == TMul(split(x, 2)[1], split(x, 2)[2])

\* with the multiplicative map L1 evaluated: m, then the gate map
CallMultipli(c, inputs, prev, cell, L1) ==
    IF L1.err # "" THEN Raised(L1.err, L1.g)
    ELSE CallGates(c, prev, cell,
                   _linear(ArgList(<<inputs, Multiplicative(L1.res)>>), 4 * c.num_units,
                           TRUE, 0, variable_scope(cell, "LSTM_Weight"), L1.g))

\* scope or type(self).__name__
CellScope(ctx, scope) ==
    variable_scope(ctx, IF scope = "" THEN "MultiplicativeLSTMCell" ELSE scope)

\* cell(inputs, st, scope) called in scope ctx on store gr: what it raises or
\* returns, and the store as the call leaves it
Call(c, inputs, st, scope, ctx, gr) ==
    IF Len(inputs.shape) # 2 THEN Raised(E_RANK, gr)
    ELSE IF inputs.shape[2] = None THEN Raised(E_INFER, gr)
    ELSE CallMultipli(c, inputs, Unpack(c, st), CellScope(ctx, scope),
                      _linear(ArgList(<<inputs, Unpack(c, st)[2]>>), 2 * c.num_units,
                              TRUE, 0,
                              variable_scope(CellScope(ctx, scope), "Multipli_Weight"),
                              gr))

-----------------------------------------------------------------------------
(* The callers: what a sequence-unrolling driver or a direct user of _linear *)
(* can pass.                                                               *)

\* the valid configurations: num_units > 0, num_proj absent or > 0, a clip
\* bound absent or 0.5, proj_clip only together with num_proj
Configs ==
    { Construct(nu, peep, cc, orthogonal_initializer, np, pc, tup) :
        nu \in 1..MaxDim, peep \in BOOLEAN, cc \in {None, 1},
        np \in 1..MaxDim, pc \in {None, 1}, tup \in BOOLEAN }
      \cup
    { Construct(nu, peep, cc, orthogonal_initializer, None, None, tup) :
        nu \in 1..MaxDim, peep \in BOOLEAN, cc \in {None, 1}, tup \in BOOLEAN }

\* +1.0, -1.0, +1.0, ... scaled by v
Alternating(w, v) == [k \in 1..w |-> IF k % 2 = 1 THEN v ELSE -v]

\* input tensors: batch 1 with a known width, and the ill-formed ones
GoodInputs == { Tensor(<<1, w>>, Alternating(w, 2)) : w \in 1..MaxDim }
Rank1Tensor == Tensor(<<1>>, <<>>)
UnknownWidthTensor == Tensor(<<1, None>>, <<>>)
ZeroWidthTensor == Tensor(<<1, 0>>, <<>>)
OtherBatchTensor == Tensor(<<2, 1>>, <<2>>)
BadInputs == {Rank1Tensor, UnknownWidthTensor, ZeroWidthTensor}

\* the states a driver starts a sequence from
DriverStates(c) ==
    LET hw == c.output_size
        zc == Fill(1, c.num_units, 0)
        zh == Fill(1, hw, 0)
        bc == Tensor(<<1, c.num_units>>, Alternating(c.num_units, 6))
        bh == Tensor(<<1, hw>>, Alternating(hw, 2))
    IN  IF c.state_is_tuple
        THEN {LSTMStateTuple(zc, zh), LSTMStateTuple(bc, bh)}
               \cup {LSTMStateTuple(zc, x) : x \in BadInputs}
        ELSE {concat2(zc, zh), concat2(bc, bh)}

NoCall == [op |-> "none", err |-> ""]
EmptyStore(seed) == [vars |-> <<>>, rng |-> seed]

\* the stores a cell can find at its first step: an empty one, and, for a cell
\* without peepholes, the one an equal cell with peepholes has left after a
\* step in the same scope
FirstStores(c) ==
    {EmptyStore(0)} \cup
    IF c.use_peepholes \/ ~c.state_is_tuple THEN {}
    ELSE LET peer == [c EXCEPT !.use_peepholes = TRUE]
             zero == LSTMStateTuple(Fill(1, c.num_units, 0), Fill(1, c.output_size, 0))
         IN  {Call(peer, Tensor(<<1, 1>>, <<2>>), zero, "", Scope(<<>>, FALSE),
                   EmptyStore(0)).g}

Init ==
    /\ cfg \in Configs
    /\ g \in FirstStores(cfg)
    /\ state \in DriverStates(cfg)
    /\ carried = <<>>
    /\ last = NoCall
    /\ t = 0
    /\ threads = <<>>

\* the driver calls cell(inputs, state, scope) at the root scope, whose reuse
\* flag it has set or not, and keeps the state the cell returns
Step(inputs, scope, reuse) ==
    /\ t < MaxSteps
    /\ \E r \in {Call(cfg, inputs, state, scope, Scope(<<>>, reuse), g)} :
           /\ g' = r.g
           /\ state' = IF r.err = "" THEN r.new_state ELSE state
           /\ carried' = IF r.err = "" THEN <<r.c, r.h>> ELSE carried
           /\ last' = [op |-> "cell", err |-> r.err, inputs |-> inputs, state |-> state,
                       scope |-> scope, reuse |-> reuse, g0 |-> g, carried |-> carried,
                       h |-> r.h, new_state |-> r.new_state, c |-> r.c,
                       c_prev |-> r.c_prev, h_prev |-> r.h_prev,
                       i |-> r.i, j |-> r.j, f |-> r.f, o |-> r.o]
    /\ t' = t + 1
    /\ UNCHANGED <<cfg, threads>>

\* a direct call _linear(args, output_size, bias) inside variable scope `scope`
LinearCall(args, output_size, bias, scope, reuse) ==
    /\ t < MaxSteps
    /\ \E r \in {_linear(args, output_size, bias, 0, Scope(<<scope>>, reuse), g)} :
           /\ g' = r.g
           /\ last' = [op |-> "linear", err |-> r.err, args |-> args,
                       output_size |-> output_size, bias |-> bias,
                       scope |-> scope, reuse |-> reuse, g0 |-> g, res |-> r.res]
    /\ t' = t + 1
    /\ UNCHANGED <<cfg, state, carried, threads>>

\* the direct calls made beside a cell: one of each outcome
DirectArgs ==
    {NoArgs, ArgList(<<>>), OneTensor(Tensor(<<1, 1>>, <<2>>))}
      \cup {ArgList(<<Tensor(<<1, 1>>, <<2>>), x>>) : x \in BadInputs}

Next ==
    \/ \E inputs \in GoodInputs \cup BadInputs \cup {OtherBatchTensor}, reuse \in BOOLEAN :
          Step(inputs, "", reuse)
    \/ \E args \in DirectArgs, reuse \in BOOLEAN :
          LinearCall(args, 1, TRUE, "user", reuse)

Spec == Init /\ [][Next]_vars

-----------------------------------------------------------------------------
(* Direct use of _linear alone, in two variable scopes. *)

InitLinear ==
    /\ cfg = Construct(1, FALSE, None, orthogonal_initializer, None, None, TRUE)
    /\ g = EmptyStore(0)
    /\ state = LSTMStateTuple(Fill(1, 1, 0), Fill(1, 1, 0))
    /\ carried = <<>>
    /\ last = NoCall
    /\ t = 0
    /\ threads = <<>>

\* what a direct caller passes as args
LinearArgs ==
    {NoArgs, ArgList(<<>>)}
      \cup {OneTensor(x) : x \in GoodInputs}
      \cup {ArgList(<<Tensor(<<1, 1>>, <<2>>), y>>) :
              y \in GoodInputs \cup BadInputs \cup {OtherBatchTensor}}

NextLinear ==
    \E args \in LinearArgs, bias \in BOOLEAN, scope \in {"A", "B"}, reuse \in BOOLEAN :
        LinearCall(args, 2, bias, scope, reuse)

SpecLinear == InitLinear /\ [][NextLinear]_vars

-----------------------------------------------------------------------------
(* Two threads make their first use of one cell in the same scope.  Nothing *)
(* in __call__ or _linear takes a lock, so the threads interleave between   *)
(* and inside the get_variable calls: the store's lookup of a name and its  *)
(* insertion of the variable it then builds are separate steps.             *)

Threads == {1, 2}

\* the get_variable calls of one cell step on well-formed arguments, in order
Requests(c, inputs, h_prev) ==
    LET cell == <<"MultiplicativeLSTMCell">>
        lin(sub, rows, cols) ==
            << [key |-> cell \o <<sub, "Linear", "NormalColMatrix">>, shape |-> <<rows, cols>>],
               [key |-> cell \o <<sub, "Linear", "Scalars">>, shape |-> <<cols>>],
               [key |-> cell \o <<sub, "Linear", "Bias">>, shape |-> <<cols>>] >>
        diag(name) == [key |-> Append(cell, name), shape |-> <<c.num_units>>]
    IN  lin("Multipli_Weight", inputs.shape[2] + h_prev.shape[2], 2 * c.num_units)
          \o lin("LSTM_Weight", inputs.shape[2] + c.num_units, 4 * c.num_units)
          \o (IF c.use_peepholes
              THEN <<diag("W_F_diag"), diag("W_I_diag"), diag("W_O_diag")>> ELSE <<>>)
          \o (IF c.num_proj # None
              THEN <<[key |-> Append(cell, "W_P"), shape |-> <<c.num_units, ProjWidth(c)>>]>>
              ELSE <<>>)

ThreadRequests == Requests(cfg, Tensor(<<1, 1>>, <<2>>), Unpack(cfg, state)[2])

ThreadConfigs ==
    { Construct(1, peep, None, orthogonal_initializer, np, None, TRUE) :
        peep \in BOOLEAN, np \in {None, 1} }

InitThreads ==
    /\ cfg \in ThreadConfigs
    /\ g = EmptyStore(0)
    /\ state = LSTMStateTuple(Fill(1, 1, 0), Fill(1, cfg.output_size, 0))
    /\ carried = <<>>
    /\ last = NoCall
    /\ t = 0
    /\ threads \in
         { [proc |-> [th \in Threads |->
                        [pc |-> 1, phase |-> "lookup", reuse |-> r[th], err |-> "", got |-> <<>>]],
            log |-> <<>>] : r \in [Threads -> BOOLEAN] }

Advance(p, serial) ==
    [p EXCEPT !.got = Append(@, serial), !.pc = @ + 1,
              !.phase = IF p.pc = Len(ThreadRequests) THEN "done" ELSE "lookup"]

\* thread th looks the next variable's name up in the store
Lookup(th) ==
    LET p == threads.proc[th]
        rq == ThreadRequests[p.pc]
        q == IF rq.key \in DOMAIN g.vars
             THEN IF ~p.reuse THEN [p EXCEPT !.phase = "failed", !.err = E_EXISTS]
                  ELSE IF g.vars[rq.key].shape # rq.shape
                       THEN [p EXCEPT !.phase = "failed", !.err = E_SHAPE]
                  ELSE Advance(p, g.vars[rq.key].serial)
             ELSE IF p.reuse THEN [p EXCEPT !.phase = "failed", !.err = E_MISSING]
                  ELSE [p EXCEPT !.phase = "create"]
    IN  /\ p.phase = "lookup"
        /\ threads' = [threads EXCEPT !.proc[th] = q]
        /\ UNCHANGED <<cfg, g, state, carried, last, t>>

\* thread th, having found the name absent, builds the variable and stores it
\* under the name, whatever is stored there by now
Create(th) ==
    LET p == threads.proc[th]
        rq == ThreadRequests[p.pc]
        serial == Len(threads.log) + 1
        v == [shape |-> rq.shape, initializer |-> framework_default_initializer,
              value |-> <<>>, serial |-> serial]
    IN  /\ p.phase = "create"
        /\ g' = [g EXCEPT !.vars = (rq.key :> v) @@ g.vars]
        /\ threads' = [proc |-> [threads.proc EXCEPT ![th] = Advance(p, serial)],
                       log |-> Append(threads.log, rq.key)]
        /\ UNCHANGED <<cfg, state, carried, last, t>>

NextThreads == \E th \in Threads : Lookup(th) \/ Create(th)

SpecThreads == InitThreads /\ [][NextThreads]_vars

-----------------------------------------------------------------------------
(* Properties. *)

CellReturned == last.op = "cell" /\ last.err = ""
LinearCalled == last.op = "linear"

WellFormed(x) == Len(x.shape) = 2 /\ x.shape[2] # None /\ x.shape[2] # 0
Within(x, k) == \A n \in 1..Len(x.val) : -k <= x.val[n] /\ x.val[n] <= k
Exceeds(x, k) == \E n \in 1..Len(x.val) : x.val[n] < -k \/ x.val[n] > k
Keys(reqs) == {reqs[n].key : n \in 1..Len(reqs)}
AllPresent(reqs, st) ==
    \A n \in 1..Len(reqs) :
        reqs[n].key \in DOMAIN st.vars /\ st.vars[reqs[n].key].shape = reqs[n].shape
NonePresent(reqs, st) == Keys(reqs) \cap DOMAIN st.vars = {}

\* C1: after a step that returns, whatever came before it, the cell state has
\* width num_units and the output, which is the new hidden state, has width
\* num_proj if a projection is configured and num_units if not; state_size
\* and output_size as set at construction say the same.
C1_Widths ==
    CellReturned =>
        LET ow == IF cfg.num_proj # None THEN cfg.num_proj ELSE cfg.num_units
            new == Unpack(cfg, last.new_state)
        IN  /\ last.c.shape = <<1, cfg.num_units>> /\ Len(last.c.val) = cfg.num_units
            /\ last.h.shape = <<1, ow>> /\ Len(last.h.val) = ow
            /\ new[1].shape[2] = cfg.num_units /\ new[2].shape[2] = ow
            /\ cfg.output_size = Len(last.h.val)
            /\ cfg.state_size = IF cfg.state_is_tuple
                                THEN <<Len(last.c.val), Len(last.h.val)>>
                                ELSE <<Len(last.new_state.val)>>

\* a second consecutive step has returned, with a projection narrower or
\* wider than the cell
C1_Witness ==
    /\ CellReturned /\ t = MaxSteps /\ last.carried # <<>>
    /\ cfg.num_proj # None /\ cfg.num_proj # cfg.num_units

\* the variables the last call asks the store for
LinearAsks ==
    LET lin == <<last.scope, "Linear">>
        rows == TotalArgSize(last.args.items)
    IN  << [key |-> Append(lin, "NormalColMatrix"), shape |-> <<rows, last.output_size>>],
           [key |-> Append(lin, "Scalars"), shape |-> <<last.output_size>>] >>
          \o (IF last.bias
              THEN <<[key |-> Append(lin, "Bias"), shape |-> <<last.output_size>>]>>
              ELSE <<>>)
CellAsks == Requests(cfg, last.inputs, Unpack(cfg, last.state)[2])

LinearUsable ==
    /\ LinearCalled /\ LinearArgError(last.args) = "" /\ ConcatCompatible(last.args.items)
CellUsable ==
    /\ last.op = "cell" /\ WellFormed(last.inputs)
    /\ WellFormed(Unpack(cfg, last.state)[2])
    /\ last.inputs.shape[1] = Unpack(cfg, last.state)[2].shape[1]

FirstUse(reqs) ==
    NonePresent(reqs, last.g0) =>
        IF last.reuse THEN last.err = E_MISSING /\ g = last.g0
        ELSE last.err = "" /\ DOMAIN g.vars = DOMAIN last.g0.vars \cup Keys(reqs)
LaterUse(reqs) ==
    AllPresent(reqs, last.g0) =>
        /\ g = last.g0
        /\ IF last.reuse THEN last.err = "" ELSE last.err = E_EXISTS

\* C2 as stated: a call that finds the parameters of an earlier call with the
\* same inputs in its scope returns and leaves the store as it was.
C2_SecondCallSucceeds ==
    /\ LinearUsable /\ AllPresent(LinearAsks, last.g0) => last.err = "" /\ g = last.g0
    /\ CellUsable /\ AllPresent(CellAsks, last.g0) => last.err = "" /\ g = last.g0

\* C2, amended: the first call in a scope, made with reuse off, creates the
\* parameters; a later call with the same inputs in that scope creates none,
\* and it returns, using the stored ones, if the scope's reuse flag is on,
\* while with reuse off it raises "already exists".  The same for a cell step.
C2_ReuseShares ==
    /\ LinearUsable => FirstUse(LinearAsks) /\ LaterUse(LinearAsks)
    /\ CellUsable => FirstUse(CellAsks) /\ LaterUse(CellAsks)

\* a second cell step, and a second direct call, have returned on the
\* parameters of the first
C2_Witness ==
    /\ last.op # "none" /\ last.reuse /\ last.err = ""
    /\ last.g0.vars # <<>> /\ g = last.g0
    /\ \/ CellUsable /\ AllPresent(CellAsks, last.g0) /\ last.carried # <<>>
       \/ LinearUsable /\ AllPresent(LinearAsks, last.g0)

\* C3: with cell_clip = K every element of the cell state a step returns is
\* in [-K, K], also when the previous cell state was not.
C3_CellClip ==
    CellReturned /\ cfg.cell_clip # None =>
        /\ Within(last.c, cfg.cell_clip)
        /\ Within(Unpack(cfg, last.new_state)[1], cfg.cell_clip)

\* the previous cell state was outside the bound and the new one sits on it
C3_Witness ==
    /\ CellReturned /\ cfg.cell_clip # None
    /\ Exceeds(last.c_prev, cfg.cell_clip)
    /\ \E n \in 1..Len(last.c.val) :
          last.c.val[n] = cfg.cell_clip \/ last.c.val[n] = -cfg.cell_clip

\* C4: with num_proj and proj_clip = K every element of the output, and of
\* the hidden part of the returned state, is in [-K, K].
C4_ProjClip ==
    CellReturned /\ cfg.num_proj # None /\ cfg.proj_clip # None =>
        /\ Within(last.h, cfg.proj_clip)
        /\ Within(Unpack(cfg, last.new_state)[2], cfg.proj_clip)

\* the projected hidden state was outside the bound before the clip
C4_Witness ==
    /\ CellReturned /\ cfg.num_proj # None /\ cfg.proj_clip # None
    /\ ~cfg.use_peepholes
    /\ Exceeds(matmul(Hidden(cfg, last.c, last.o, <<>>),
                      g.vars[<<"MultiplicativeLSTMCell", "W_P">>].value),
               cfg.proj_clip)

\* the peephole diagonals in a store
Diagonals(st) ==
    {k \in DOMAIN st.vars : k[Len(k)] \in {"W_F_diag", "W_I_diag", "W_O_diag"}}

\* c = c_prev * sigmoid(f + forget_bias) + sigmoid(i) * j, element by element
PlainCell(c_prev, i, j, f) ==
    [n \in 1..Len(c_prev.val) |->
        (c_prev.val[n] * sigmoid(f.val[n] + cfg.forget_bias)) \div 2
          + (sigmoid(i.val[n]) * j.val[n]) \div 2]
\* h = tanh(c * o), element by element
PlainHidden(c, o) == [n \in 1..Len(c.val) |-> tanh((c.val[n] * o.val[n]) \div 2)]
Clamp(v, k) == IF k = None THEN v ELSE IF v > k THEN k ELSE IF v < -k THEN -k ELSE v

\* C5: without peepholes a step creates no peephole diagonal, and what it
\* returns is the plain update (followed by the configured clip and
\* projection), whatever diagonals the scope holds.
C5_PlainUpdate ==
    CellReturned /\ ~cfg.use_peepholes =>
        LET pc == PlainCell(last.c_prev, last.i, last.j, last.f)
            ph == PlainHidden(last.c, last.o)
        IN  /\ Diagonals(g) = Diagonals(last.g0)
            /\ \A k \in Diagonals(g) : g.vars[k] = last.g0.vars[k]
            /\ last.c.val = [n \in 1..Len(pc) |-> Clamp(pc[n], cfg.cell_clip)]
            /\ IF cfg.num_proj = None THEN last.h.val = ph
               ELSE last.h = ProjClip(cfg, matmul(Tensor(last.c.shape, ph),
                                 g.vars[<<"MultiplicativeLSTMCell", "W_P">>].value))

\* a cell without peepholes has stepped in a scope that holds diagonals
C5_Witness ==
    /\ CellReturned /\ ~cfg.use_peepholes /\ Diagonals(g) # {}
    /\ \E n \in 1..Len(last.c.val) : last.c.val[n] # 0

\* the argument errors of _linear, and when the arguments deserve one
ArgumentErrors == {E_ARGS, E_2D, E_DIM}
BadArgs(args) ==
    \/ args.kind = "none"
    \/ args.items = <<>>
    \/ \E a \in 1..Len(args.items) :
          \/ Len(args.items[a].shape) # 2
          \/ args.items[a].shape[2] = None
          \/ args.items[a].shape[2] = 0

\* C6 as stated: _linear raises exactly when the arguments are bad, and
\* returns a result otherwise.
C6_RaisesIffBadArgs == LinearCalled => (last.err # "" <=> BadArgs(last.args))

\* C6, amended: _linear raises an argument error, before it touches the
\* store, exactly when the arguments are bad; otherwise it returns a result
\* unless the store refuses a variable (it exists and reuse is off, it is
\* missing and reuse is on, its stored shape differs) or the inputs' batch
\* sizes differ; on a scope that holds nothing, with reuse off and equal batch
\* sizes, it returns a result.
C6_ArgumentErrors ==
    LinearCalled =>
        /\ last.err \in ArgumentErrors <=> BadArgs(last.args)
        /\ BadArgs(last.args) => g = last.g0
        /\ last.err \in ArgumentErrors \cup {"", E_EXISTS, E_MISSING, E_SHAPE, E_CONCAT}
        /\ (/\ ~BadArgs(last.args) /\ ~last.reuse /\ ConcatCompatible(last.args.items)
            /\ NonePresent(LinearAsks, last.g0)) => last.err = ""
        /\ last.err = "" => Len(last.res.val) = last.output_size

\* each argument error has been raised on a store that is not empty
C6_Witness ==
    /\ LinearCalled /\ last.err = E_DIM /\ last.g0.vars # <<>>
    /\ \E a \in 1..Len(last.args.items) : last.args.items[a] = ZeroWidthTensor

\* C7: a call that raises a configuration or shape error (rank, unknown or
\* zero width, no arguments) leaves the variable store exactly as it was.
ShapeErrors == {E_RANK, E_INFER, E_ARGS, E_2D, E_DIM}
C7_NoPartialCreation ==
    last.op \in {"cell", "linear"} /\ last.err \in ShapeErrors => g = last.g0

\* a step has raised on the previous hidden state's width with the cell's
\* parameters already in the store
C7_Witness ==
    /\ last.op = "cell" /\ last.err = E_DIM /\ WellFormed(last.inputs)
    /\ last.g0.vars # <<>>

\* the weight matrices of the cell: the two direction matrices, the peephole
\* diagonals and the projection matrix
CellWeights(st) ==
    {k \in DOMAIN st.vars :
        /\ k[1] = "MultiplicativeLSTMCell"
        /\ k[Len(k)] \in {"NormalColMatrix", "W_F_diag", "W_I_diag", "W_O_diag", "W_P"}}

\* C8: every weight matrix a step of the cell creates is created with the
\* initializer the cell was constructed with.
C8_ConfiguredInitializer ==
    CellReturned =>
        \A k \in CellWeights(g) \ DOMAIN last.g0.vars :
            g.vars[k].initializer = cfg.initializer

Finished == \A th \in Threads : threads.proc[th].phase \in {"done", "failed"}

\* C9: when two threads first use the cell at once, every variable is
\* created once, no call fails and both calls end with the same variables.
C9_Serialized ==
    (\A th \in Threads : ~threads.proc[th].reuse) =>
    /\ \A th \in Threads : threads.proc[th].phase # "failed"
    /\ \A a, b \in 1..Len(threads.log) : threads.log[a] = threads.log[b] => a = b
    /\ Finished => threads.proc[1].got = threads.proc[2].got

\* C10: the concatenated state a step returns has the declared width, its
\* two slices are the c and h the step produced, and the next step reads
\* exactly those.
C10_JoinSplit ==
    CellReturned /\ ~cfg.state_is_tuple =>
        /\ state = last.new_state
        /\ state.shape = <<1, cfg.state_size[1]>>
        /\ Len(state.val) = cfg.state_size[1]
        /\ Unpack(cfg, state) = <<last.c, last.h>>
        /\ last.carried # <<>> => <<last.c_prev, last.h_prev>> = last.carried

\* a second step has read back a state whose cell and hidden parts differ in
\* width and are not zero
C10_Witness ==
    /\ CellReturned /\ ~cfg.state_is_tuple /\ last.carried # <<>>
    /\ cfg.num_proj # None /\ cfg.num_proj # cfg.num_units
    /\ \E n \in 1..Len(last.c_prev.val) : last.c_prev.val[n] # 0
    /\ \E n \in 1..Len(last.c.val) : last.c.val[n] # 0

====
